---- MODULE Spec2Model ----
(***************************************************************************)
(* Model of src/app/api/classify-audio/route.ts: the POST handler that     *)
(* spawns the classifier process, buffers its stdout/stderr, extracts the  *)
(* trailing JSON object from stdout on exit code 0 and races the process   *)
(* close event against a 60 s timer.                                       *)
(*                                                                         *)
(* Text is a sequence of characters.  The characters that matter to the    *)
(* handler are "{", "}", "\n", " "; the token "m" stands for a complete    *)
(* member (`"a":1`), "k" for a key awaiting a value (`"b":`), "x" for a    *)
(* letter of a log line.  Bytes "C3" "A9" are the UTF-8 encoding of one    *)
(* two-byte character, "U+00E9"; "U+FFFD" is the replacement character.    *)
(***************************************************************************)
EXTENDS Integers, Sequences, FiniteSets, TLC

VARIABLES
    request,      \* the incoming request: is its body JSON, and its audioData
    pc,           \* position of POST: "start", "returned", "spawned", "rejected"
    proc,         \* the child process: "none", "running", "failed"
    spawnCalls,   \* number of calls of spawn (line 17)
    timerArmed,   \* setTimeout (line 98) has been called
    timerFired,   \* the timer callback has run
    killCalls,    \* number of calls of python.kill() (line 99)
    stdout,       \* let stdout (line 19)
    stderr,       \* let stderr (line 20)
    outChunks,    \* history: the stdout chunks delivered, in arrival order
    errChunks,    \* history: the stderr chunks delivered, in arrival order
    closed,       \* the close event has been delivered
    closeCode,    \* the code the close event carried
    firstEvent,   \* history: which of close / timer ran first
    resolveCalls, \* number of calls of resolve
    response,     \* the response the request is answered with
    killsAtResolve, \* history: calls of python.kill() made when the timer
                    \* callback called resolve
    peer          \* a second invocation of POST, running at the same time

vars == <<request, pc, proc, spawnCalls, timerArmed, timerFired, killCalls,
          stdout, stderr, outChunks, errChunks, closed, closeCode, firstEvent,
          resolveCalls, response, killsAtResolve, peer>>

(***************************************************************************)
(* Bounds.                                                                 *)
(***************************************************************************)
\* Total number of data events (stdout and stderr together) of one run.
MaxChunks == 4

(***************************************************************************)
(* Inputs.                                                                 *)
(***************************************************************************)
\* audioData of the request body: missing, the empty string, a payload.
Undefined == "<undefined>"
AudioValues == {Undefined, "", "abc"}

\* Mutant of Truthy: only a missing audioData is refused.
TruthyUnlessMissing(a) == a # Undefined

\* !audioData (line 9) is false exactly for a truthy value.
Truthy(a) == a \notin {Undefined, ""}

\* Chunks of bytes the child may write to stdout.
StdoutChunks ==
    { <<"x", "\n">>, <<"{", "\n">>, <<"m", "\n">>, <<"}", "\n">>,
      <<"{", "k", "\n">>, <<" ">>, <<"{", "m", "}">>,
      <<"C3">>, <<"A9">>, <<"C3", "A9">> }

\* Chunks of bytes the child may write to stderr.
StderrChunks == { <<"e">>, <<"f">> }

\* The code of the close event: an exit status, or null for a process that
\* was terminated by a signal.
NullCode == -1
ExitCodes == {0, 1, NullCode}

(***************************************************************************)
(* Strings.                                                                *)
(***************************************************************************)
\* data.toString() (lines 23, 27): UTF-8 decoding of one chunk on its own.
RECURSIVE toString(_)
toString(bytes) ==
    IF bytes = <<>> THEN <<>>
    ELSE IF bytes[1] = "C3" /\ Len(bytes) >= 2 /\ bytes[2] = "A9"
         THEN <<"U+00E9">> \o toString(SubSeq(bytes, 3, Len(bytes)))
    ELSE IF bytes[1] \in {"C3", "A9"}
         THEN <<"U+FFFD">> \o toString(Tail(bytes))
    ELSE <<bytes[1]>> \o toString(Tail(bytes))

WhiteSpace == {" ", "\n"}

\* String.prototype.trim
RECURSIVE trimStart(_)
trimStart(s) ==
    IF s # <<>> /\ s[1] \in WhiteSpace THEN trimStart(Tail(s)) ELSE s

RECURSIVE trimEnd(_)
trimEnd(s) ==
    IF s # <<>> /\ s[Len(s)] \in WhiteSpace
    THEN trimEnd(SubSeq(s, 1, Len(s) - 1)) ELSE s

trim(s) == trimEnd(trimStart(s))

\* s.split("\n"): the lines of s; the empty string has one, empty, line.
RECURSIVE splitFrom(_, _)
splitFrom(s, cur) ==
    IF s = <<>> THEN <<cur>>
    ELSE IF s[1] = "\n" THEN <<cur>> \o splitFrom(Tail(s), <<>>)
    ELSE splitFrom(Tail(s), Append(cur, s[1]))

split(s) == splitFrom(s, <<>>)

\* Mutant of startsWith: the line is trimmed before it is tested.
startsWithTrimmed(line) == trim(line) # <<>> /\ trim(line)[1] = "{"

\* line.startsWith("{")
startsWith(line) == line # <<>> /\ line[1] = "{"

\* lines[i..j].join("\n")
RECURSIVE join(_, _, _)
join(lines, i, j) ==
    IF i > j THEN <<>>
    ELSE IF i = j THEN lines[i]
    ELSE lines[i] \o <<"\n">> \o join(lines, i + 1, j)

(***************************************************************************)
(* JSON.parse over the token alphabet.  White space may stand between any  *)
(* two tokens; an object is {}, {m} or {k object}.  The parsed value is    *)
(* written as its tokens without white space.                              *)
(***************************************************************************)
stripWs(s) == SelectSeq(s, LAMBDA c : c \notin WhiteSpace)

RECURSIVE isObject(_)
isObject(t) ==
    /\ Len(t) >= 2
    /\ t[1] = "{"
    /\ t[Len(t)] = "}"
    /\ LET body == SubSeq(t, 2, Len(t) - 1)
       IN  \/ body = <<>>
           \/ body = <<"m">>
           \/ body # <<>> /\ body[1] = "k" /\ isObject(Tail(body))

parses(text) == isObject(stripWs(text))
JSONparse(text) == stripWs(text)

\* let jsonResult = "" (line 35): the falsy value no parse replaces.
NoResult == <<>>

(***************************************************************************)
(* Trailing-JSON extraction of the close handler (lines 34-53).            *)
(***************************************************************************)
\* Mutant of innerLoop: gives up at the first parse that fails.
innerLoopNoRetry(lines, i, j) ==
    IF j > Len(lines) THEN NoResult
    ELSE IF parses(join(lines, i, j)) THEN JSONparse(join(lines, i, j))
    ELSE NoResult

\* The inner loop (lines 42-50): push lines[j], parse the joined text, stop
\* at the first parse that succeeds.  j starts at i + 1, so the text parsed
\* always holds at least two lines.
RECURSIVE innerLoop(_, _, _)
innerLoop(lines, i, j) ==
    IF j > Len(lines) THEN NoResult
    ELSE IF parses(join(lines, i, j)) THEN JSONparse(join(lines, i, j))
    ELSE innerLoop(lines, i, j + 1)

\* Mutant of outerLoop: a candidate that never parses ends the scan.
RECURSIVE outerLoopNoFallback(_, _)
outerLoopNoFallback(lines, i) ==
    IF i < 1 THEN NoResult
    ELSE IF startsWith(lines[i])
         THEN innerLoop(lines, i, i + 1)
    ELSE outerLoopNoFallback(lines, i - 1)

\* The outer loop (lines 38-53): from the last line to the first, a line
\* that starts with "{" is a candidate; stop at the first candidate whose
\* inner loop left a truthy jsonResult.
RECURSIVE outerLoop(_, _)
outerLoop(lines, i) ==
    IF i < 1 THEN NoResult
    ELSE IF startsWith(lines[i])
         THEN LET jsonResult == innerLoop(lines, i, i + 1)
              IN  IF jsonResult # NoResult THEN jsonResult
                  ELSE outerLoop(lines, i - 1)
    ELSE outerLoop(lines, i - 1)

\* const lines = stdout.trim().split("\n") and the scan over them.
extract(out) ==
    LET lines == split(trim(out)) IN outerLoop(lines, Len(lines))

(***************************************************************************)
(* Responses.  A response is its status and its body; fields is the set of *)
(* keys of an error body, json the value a 200 response passes through.    *)
(***************************************************************************)
NoResponse ==
    [status |-> 0, fields |-> {}, error |-> "", json |-> NoResult,
     code |-> NullCode, stdout |-> <<>>, stderr |-> <<>>]

\* NextResponse.json({ error: "No audio data provided" }, { status: 400 })
BadRequest ==
    [status |-> 400, fields |-> {"error"}, error |-> "No audio data provided",
     json |-> NoResult, code |-> NullCode, stdout |-> <<>>, stderr |-> <<>>]

\* The catch block of POST (lines 111-119).
InternalError ==
    [status |-> 500, fields |-> {"error", "details"},
     error |-> "Internal server error",
     json |-> NoResult, code |-> NullCode, stdout |-> <<>>, stderr |-> <<>>]

\* Mutant of Success: the value is wrapped in an envelope.
SuccessWrapped(jsonResult) ==
    [status |-> 200, fields |-> {"result"}, error |-> "", json |-> jsonResult,
     code |-> NullCode, stdout |-> <<>>, stderr |-> <<>>]

\* NextResponse.json(jsonResult) (line 56)
Success(jsonResult) ==
    [status |-> 200, fields |-> {}, error |-> "", json |-> jsonResult,
     code |-> NullCode, stdout |-> <<>>, stderr |-> <<>>]

\* Lines 58-67.
ParseFailure(out, err) ==
    [status |-> 500, fields |-> {"error", "stdout", "stderr"},
     error |-> "Failed to parse classification results",
     json |-> NoResult, code |-> NullCode, stdout |-> out, stderr |-> err]

\* Lines 83-93.
ProcessFailure(code, out, err) ==
    [status |-> 500, fields |-> {"error", "code", "stderr", "stdout"},
     error |-> "MediaPipe classification failed",
     json |-> NoResult, code |-> code, stdout |-> out, stderr |-> err]

\* Lines 100-108.
Timeout ==
    [status |-> 408, fields |-> {"error", "message"},
     error |-> "Classification timeout",
     json |-> NoResult, code |-> NullCode, stdout |-> <<>>, stderr |-> <<>>]

\* Mutant of closeOutcome: extraction is tried whatever the exit code.
closeOutcomeExtractFirst(code, out, err) ==
    LET jsonResult == extract(out)
    IN  IF jsonResult # NoResult THEN Success(jsonResult)
        ELSE IF code = 0 THEN ParseFailure(out, err)
        ELSE ProcessFailure(code, out, err)

\* Mutant of closeOutcome: the parse failure reports the trimmed stdout.
closeOutcomeTrimmed(code, out, err) ==
    IF code = 0
    THEN LET jsonResult == extract(out)
         IN  IF jsonResult # NoResult THEN Success(jsonResult)
             ELSE ParseFailure(trim(out), err)
    ELSE ProcessFailure(code, out, err)

\* What the close handler passes to resolve (lines 31-94).
closeOutcome(code, out, err) ==
    IF code = 0
    THEN LET jsonResult == extract(out)
         IN  IF jsonResult # NoResult THEN Success(jsonResult)
             ELSE ParseFailure(out, err)
    ELSE ProcessFailure(code, out, err)

\* Mutant of resolve: the last call wins.
resolveLast(current, value) == value

\* Mutant of resolve: a later call of resolve wins unless it is the timer's.
resolveCloseWins(current, value) ==
    IF current = NoResponse \/ value.status # 408 THEN value ELSE current

\* resolve(value) of the promise of line 16: the first call settles the
\* promise, a later call has no effect.
resolve(current, value) ==
    IF current = NoResponse THEN value ELSE current

(***************************************************************************)
(* The state machine.                                                      *)
(***************************************************************************)
Requests ==
    {[valid |-> FALSE, audioData |-> Undefined]}
        \cup {[valid |-> TRUE, audioData |-> a] : a \in AudioValues}

\* The second invocation before its request has arrived.  Its buffers, its
\* process and its promise are those of its own call of POST (lines 16-20).
PeerInit ==
    [pc |-> "start", spawnCalls |-> 0, timerFired |-> FALSE, killCalls |-> 0,
     stdout |-> <<>>, stderr |-> <<>>, outChunks |-> <<>>, errChunks |-> <<>>,
     closed |-> FALSE, closeCode |-> NullCode, response |-> NoResponse]

Init ==
    /\ request \in Requests
    /\ pc = "start"
    /\ proc = "none"
    /\ spawnCalls = 0
    /\ timerArmed = FALSE
    /\ timerFired = FALSE
    /\ killCalls = 0
    /\ stdout = <<>>
    /\ stderr = <<>>
    /\ outChunks = <<>>
    /\ errChunks = <<>>
    /\ closed = FALSE
    /\ closeCode = NullCode
    /\ firstEvent = "none"
    /\ resolveCalls = 0
    /\ response = NoResponse
    /\ killsAtResolve = 0
    /\ peer = PeerInit

\* await request.json() throws on a body that is not JSON; the catch block
\* of POST answers (lines 7, 111-119).
BodyThrows ==
    /\ pc = "start"
    /\ ~request.valid
    /\ pc' = "returned"
    /\ response' = InternalError
    /\ UNCHANGED <<peer, killsAtResolve,
                   request, proc, spawnCalls, timerArmed, timerFired,
                   killCalls, stdout, stderr, outChunks, errChunks, closed,
                   closeCode, firstEvent, resolveCalls>>

\* if (!audioData) return 400 (lines 9-11).
RejectNoAudio ==
    /\ pc = "start"
    /\ request.valid
    /\ ~Truthy(request.audioData)
    /\ pc' = "returned"
    /\ response' = BadRequest
    /\ UNCHANGED <<peer, killsAtResolve,
                   request, proc, spawnCalls, timerArmed, timerFired,
                   killCalls, stdout, stderr, outChunks, errChunks, closed,
                   closeCode, firstEvent, resolveCalls>>

\* The promise executor runs to its end (lines 16-110): the process is
\* spawned, the three handlers are registered and the timer is started.
SpawnOk ==
    /\ pc = "start"
    /\ request.valid
    /\ Truthy(request.audioData)
    /\ pc' = "spawned"
    /\ proc' = "running"
    /\ spawnCalls' = spawnCalls + 1
    /\ timerArmed' = TRUE
    /\ UNCHANGED <<peer, killsAtResolve,
                   request, timerFired, killCalls, stdout, stderr, outChunks,
                   errChunks, closed, closeCode, firstEvent, resolveCalls,
                   response>>

\* spawn (line 17) throws synchronously (E2BIG for an argument longer than
\* the system allows, an argument holding a NUL).  The throw is inside the
\* promise executor, so the promise of line 16 is rejected; POST returns
\* that promise without awaiting it, so the catch block of line 111 does
\* not run and POST itself rejects.  Nothing after line 17 has run.
SpawnThrows ==
    /\ pc = "start"
    /\ request.valid
    /\ Truthy(request.audioData)
    /\ pc' = "rejected"
    /\ spawnCalls' = spawnCalls + 1
    /\ UNCHANGED <<peer, killsAtResolve,
                   request, proc, timerArmed, timerFired, killCalls, stdout,
                   stderr, outChunks, errChunks, closed, closeCode,
                   firstEvent, resolveCalls, response>>

\* spawn returns although the executable could not be started (ENOENT):
\* the executor runs to its end, and the failure arrives later as an
\* 'error' event of the child, for which no handler is registered.  The
\* child never writes and never closes.
SpawnFails ==
    /\ pc = "start"
    /\ request.valid
    /\ Truthy(request.audioData)
    /\ pc' = "spawned"
    /\ proc' = "failed"
    /\ spawnCalls' = spawnCalls + 1
    /\ timerArmed' = TRUE
    /\ UNCHANGED <<peer, killsAtResolve,
                   request, timerFired, killCalls, stdout, stderr, outChunks,
                   errChunks, closed, closeCode, firstEvent, resolveCalls,
                   response>>

\* Mutant of StdoutData: the chunk is put in front of the buffer.
StdoutDataPrepend(data) ==
    /\ pc = "spawned"
    /\ proc = "running"
    /\ ~closed
    /\ Len(outChunks) + Len(errChunks) < MaxChunks
    /\ stdout' = toString(data) \o stdout
    /\ outChunks' = Append(outChunks, data)
    /\ UNCHANGED <<peer, killsAtResolve,
                   request, pc, proc, spawnCalls, timerArmed, timerFired,
                   killCalls, stderr, errChunks, closed, closeCode,
                   firstEvent, resolveCalls, response>>

\* python.stdout.on("data") (lines 22-24).  Data is delivered until the
\* close event, also after the timer has fired.
StdoutData(data) ==
    /\ pc = "spawned"
    /\ proc = "running"
    /\ ~closed
    /\ Len(outChunks) + Len(errChunks) < MaxChunks
    /\ stdout' = stdout \o toString(data)
    /\ outChunks' = Append(outChunks, data)
    /\ UNCHANGED <<peer, killsAtResolve,
                   request, pc, proc, spawnCalls, timerArmed, timerFired,
                   killCalls, stderr, errChunks, closed, closeCode,
                   firstEvent, resolveCalls, response>>

\* python.stderr.on("data") (lines 26-28).
StderrData(data) ==
    /\ pc = "spawned"
    /\ proc = "running"
    /\ ~closed
    /\ Len(outChunks) + Len(errChunks) < MaxChunks
    /\ stderr' = stderr \o toString(data)
    /\ errChunks' = Append(errChunks, data)
    /\ UNCHANGED <<peer, killsAtResolve,
                   request, pc, proc, spawnCalls, timerArmed, timerFired,
                   killCalls, stdout, outChunks, closed, closeCode,
                   firstEvent, resolveCalls, response>>

\* python.on("close") (lines 30-95).
Close(code) ==
    /\ pc = "spawned"
    /\ proc = "running"
    /\ ~closed
    /\ closed' = TRUE
    /\ closeCode' = code
    /\ firstEvent' = IF firstEvent = "none" THEN "close" ELSE firstEvent
    /\ response' = resolve(response, closeOutcome(code, stdout, stderr))
    /\ resolveCalls' = resolveCalls + 1
    /\ UNCHANGED <<peer, killsAtResolve,
                   request, pc, proc, spawnCalls, timerArmed, timerFired,
                   killCalls, stdout, stderr, outChunks, errChunks>>

\* Mutant of TimerFires: resolve is called before python.kill().
TimerFiresResolveFirst ==
    /\ timerArmed
    /\ ~timerFired
    /\ timerFired' = TRUE
    /\ killsAtResolve' = killCalls
    /\ killCalls' = killCalls + 1
    /\ firstEvent' = IF firstEvent = "none" THEN "timer" ELSE firstEvent
    /\ response' = resolve(response, Timeout)
    /\ resolveCalls' = resolveCalls + 1
    /\ UNCHANGED <<peer, request, pc, proc, spawnCalls, timerArmed, stdout,
                   stderr, outChunks, errChunks, closed, closeCode>>

\* Mutant of TimerFires: the callback kills the process and does not resolve.
TimerFiresOnlyKills ==
    /\ timerArmed
    /\ ~timerFired
    /\ timerFired' = TRUE
    /\ killCalls' = killCalls + 1
    /\ killsAtResolve' = killsAtResolve
    /\ firstEvent' = IF firstEvent = "none" THEN "timer" ELSE firstEvent
    /\ UNCHANGED <<peer, request, pc, proc, spawnCalls, timerArmed, stdout,
                   stderr, outChunks, errChunks, closed, closeCode,
                   resolveCalls, response>>

\* The setTimeout callback (lines 98-109): python.kill(), then resolve.  The
\* timer is never cleared, so it also fires after the close event.
TimerFires ==
    /\ timerArmed
    /\ ~timerFired
    /\ timerFired' = TRUE
    /\ killCalls' = killCalls + 1
    /\ killsAtResolve' = killCalls'
    /\ firstEvent' = IF firstEvent = "none" THEN "timer" ELSE firstEvent
    /\ response' = resolve(response, Timeout)
    /\ resolveCalls' = resolveCalls + 1
    /\ UNCHANGED <<peer, request, pc, proc, spawnCalls, timerArmed, stdout,
                   stderr,                   outChunks, errChunks, closed, closeCode>>

Next ==
    \/ BodyThrows
    \/ RejectNoAudio
    \/ SpawnOk
    \/ SpawnThrows
    \/ SpawnFails
    \/ \E data \in StdoutChunks : StdoutData(data)
    \/ \E data \in StderrChunks : StderrData(data)
    \/ \E code \in ExitCodes : Close(code)
    \/ TimerFires

Spec == Init /\ [][Next]_vars

(***************************************************************************)
(* One invocation whose timer, once started, fires in the end: the event   *)
(* loop runs the callback of setTimeout (line 98) when its 60 s are over.  *)
(* Nothing makes the process write or close.                               *)
(***************************************************************************)
\* Data events of the run.
MaxLiveChunks == 2

LiveRoom == Len(outChunks) + Len(errChunks) < MaxLiveChunks

NextLive ==
    \/ BodyThrows
    \/ RejectNoAudio
    \/ SpawnOk
    \/ SpawnThrows
    \/ SpawnFails
    \/ \E data \in StdoutChunks : LiveRoom /\ StdoutData(data)
    \/ \E data \in StderrChunks : LiveRoom /\ StderrData(data)
    \/ \E code \in ExitCodes : Close(code)
    \/ TimerFires

SpecLive == Init /\ [][NextLive]_vars /\ WF_vars(TimerFires)

(***************************************************************************)
(* Two invocations at the same time.  The second runs the same code; its   *)
(* request has a payload.  Everything it touches is local to its own call  *)
(* of POST (const python, let stdout, let stderr, resolve: lines 16-20).   *)
(***************************************************************************)
\* Data events of the two invocations together.
MaxConcChunks == 2

\* There is room for one more data event.
ConcRoom ==
    Len(outChunks) + Len(errChunks) + Len(peer.outChunks)
        + Len(peer.errChunks) < MaxConcChunks

\* The state of the first invocation.
own == <<request, pc, proc, spawnCalls, timerArmed, timerFired, killCalls,
         stdout, stderr, outChunks, errChunks, closed, closeCode, firstEvent,
         resolveCalls, response, killsAtResolve>>

\* The promise executor of the second invocation (lines 16-110).
PeerSpawn ==
    /\ peer.pc = "start"
    /\ peer' = [peer EXCEPT !.pc = "spawned", !.spawnCalls = @ + 1]
    /\ UNCHANGED own

\* Mutant of PeerStdoutData: stdout is one buffer shared by all invocations.
PeerStdoutDataShared(data) ==
    /\ peer.pc = "spawned"
    /\ ~peer.closed
    /\ ConcRoom
    /\ stdout' = stdout \o toString(data)
    /\ peer' = [peer EXCEPT !.outChunks = Append(@, data)]
    /\ UNCHANGED <<request, pc, proc, spawnCalls, timerArmed, timerFired,
                   killCalls, stderr, outChunks, errChunks, closed, closeCode,
                   firstEvent, resolveCalls, response, killsAtResolve>>

\* The stdout data handler of the second invocation (lines 22-24).
PeerStdoutData(data) ==
    /\ peer.pc = "spawned"
    /\ ~peer.closed
    /\ ConcRoom
    /\ peer' = [peer EXCEPT !.stdout = @ \o toString(data),
                            !.outChunks = Append(@, data)]
    /\ UNCHANGED own

\* The stderr data handler of the second invocation (lines 26-28).
PeerStderrData(data) ==
    /\ peer.pc = "spawned"
    /\ ~peer.closed
    /\ ConcRoom
    /\ peer' = [peer EXCEPT !.stderr = @ \o toString(data),
                            !.errChunks = Append(@, data)]
    /\ UNCHANGED own

\* The close handler of the second invocation (lines 30-95).
PeerClose(code) ==
    /\ peer.pc = "spawned"
    /\ ~peer.closed
    /\ peer' = [peer EXCEPT
                  !.closed = TRUE,
                  !.closeCode = code,
                  !.response = resolve(@, closeOutcome(code, peer.stdout,
                                                       peer.stderr))]
    /\ UNCHANGED own

\* The setTimeout callback of the second invocation (lines 98-109).
PeerTimerFires ==
    /\ peer.pc = "spawned"
    /\ ~peer.timerFired
    /\ peer' = [peer EXCEPT !.timerFired = TRUE,
                            !.killCalls = @ + 1,
                            !.response = resolve(@, Timeout)]
    /\ UNCHANGED own

NextConc ==
    \/ BodyThrows
    \/ RejectNoAudio
    \/ SpawnOk
    \/ SpawnThrows
    \/ SpawnFails
    \/ \E data \in StdoutChunks : ConcRoom /\ StdoutData(data)
    \/ \E data \in StderrChunks : ConcRoom /\ StderrData(data)
    \/ \E code \in ExitCodes : Close(code)
    \/ TimerFires
    \/ PeerSpawn
    \/ \E data \in StdoutChunks : PeerStdoutData(data)
    \/ \E data \in StderrChunks : PeerStderrData(data)
    \/ \E code \in ExitCodes : PeerClose(code)
    \/ PeerTimerFires

SpecConc == Init /\ [][NextConc]_vars

(***************************************************************************)
(* Properties.                                                             *)
(***************************************************************************)
\* The lines the close handler scans.
Lines == split(trim(stdout))
LastLine == Lines[Len(Lines)]

\* The process closed with exit code 0 before the timer fired.
CleanExitFirst == firstEvent = "close" /\ closeCode = 0

\* concatenation of the decoded chunks, in order
RECURSIVE Concat(_)
Concat(chunks) ==
    IF chunks = <<>> THEN <<>>
    ELSE toString(Head(chunks)) \o Concat(Tail(chunks))

\* C1: after exit code 0 before the deadline, when the last line of the
\* trimmed stdout begins with "{" and is valid JSON by itself, the response
\* is 200 with exactly that parsed value as its body.
C1_LastLineJsonSucceeds ==
    (CleanExitFirst /\ startsWith(LastLine) /\ parses(LastLine))
        => /\ response.status = 200
           /\ response.fields = {}
           /\ response.json = JSONparse(LastLine)

\* C2 as stated: after exit code 0 before the deadline, when the trimmed
\* stdout ends with a JSON object that spans several lines and whose first
\* line begins with "{", the response is 200 with that object as its body.
C2_MultiLineYieldsThatObject ==
    CleanExitFirst =>
        \A i \in 1..(Len(Lines) - 1) :
            (startsWith(Lines[i]) /\ parses(join(Lines, i, Len(Lines))))
                => /\ response.status = 200
                   /\ response.json = JSONparse(join(Lines, i, Len(Lines)))

\* C2 amended: in that case extraction succeeds (status 200, the body an
\* object parsed from stdout), and the body is that object whenever no
\* later line of stdout begins with "{".
C2_MultiLineSucceeds ==
    CleanExitFirst =>
        \A i \in 1..(Len(Lines) - 1) :
            (startsWith(Lines[i]) /\ parses(join(Lines, i, Len(Lines))))
                => /\ response.status = 200
                   /\ response.fields = {}
                   /\ response.json # NoResult
                   /\ (\A l \in (i + 1)..Len(Lines) : ~startsWith(Lines[l]))
                        => response.json = JSONparse(join(Lines, i, Len(Lines)))

\* C2 witness: the log line and the object split over three lines.
C2_Witness ==
    /\ CleanExitFirst
    /\ stdout = <<"x", "\n", "{", "\n", "m", "\n", "}", "\n">>
    /\ response.status = 200
    /\ response.json = <<"{", "m", "}">>

\* C3: a close with a non-zero code before the deadline is answered 500
\* with that code and both buffers, never with an extracted value.
C3_NonZeroExitIsProcessFailure ==
    (firstEvent = "close" /\ closeCode # 0)
        => /\ response.status = 500
           /\ response.fields = {"error", "code", "stdout", "stderr"}
           /\ response.error = "MediaPipe classification failed"
           /\ response.code = closeCode
           /\ response.stdout = stdout
           /\ response.stderr = stderr
           /\ response.json = NoResult

\* C3 witness: exit code 1 although stdout holds an extractable object.
C3_Witness ==
    /\ firstEvent = "close"
    /\ closeCode = 1
    /\ extract(stdout) # NoResult
    /\ stderr # <<>>
    /\ response.status = 500
    /\ response.code = 1

\* C4: after exit code 0 before the deadline, when no line of the trimmed
\* stdout begins with "{", the response is the 500 parse failure whose
\* stdout and stderr are the buffers, untrimmed.
C4_NoCandidateIsParseFailure ==
    (CleanExitFirst /\ \A i \in 1..Len(Lines) : ~startsWith(Lines[i]))
        => /\ response.status = 500
           /\ response.fields = {"error", "stdout", "stderr"}
           /\ response.error = "Failed to parse classification results"
           /\ response.stdout = stdout
           /\ response.stderr = stderr

\* C4 witness: a parse failure whose stdout differs from its trimmed form.
C4_Witness ==
    /\ CleanExitFirst
    /\ \A i \in 1..Len(Lines) : ~startsWith(Lines[i])
    /\ trim(stdout) # stdout
    /\ trim(stdout) # <<>>
    /\ stderr # <<>>
    /\ response.status = 500
    /\ response.stdout = stdout

\* C5: when the timer fires before the close event the response is the 408
\* whose body has only error and message, also after the close event of
\* the killed process has been delivered.
C5_TimeoutStands ==
    firstEvent = "timer"
        => /\ response.status = 408
           /\ response.fields = {"error", "message"}
           /\ response.error = "Classification timeout"

\* C5 witness: the timer fired first and a close with code 0 over an
\* extractable stdout came after it.
C5_Witness ==
    /\ firstEvent = "timer"
    /\ closed
    /\ closeCode = 0
    /\ extract(stdout) # NoResult
    /\ resolveCalls = 2
    /\ response.status = 408

\* C6: one outcome per invocation: the first of close and timer to run
\* produces the outcome, and no later step changes an outcome once produced.
C6_ExactlyOneOutcome ==
    [][ /\ response # NoResponse => response' = response
        /\ (firstEvent = "none" /\ firstEvent' = "timer")
             => response = NoResponse /\ response'.status = 408
        /\ (firstEvent = "none" /\ firstEvent' = "close")
             => response = NoResponse /\ response'.status \in {200, 500}
      ]_vars

\* C6 witness: the close event produced the outcome and the timer fired
\* after it.
C6_Witness ==
    /\ firstEvent = "close"
    /\ timerFired
    /\ resolveCalls = 2
    /\ response.status \in {200, 500}

\* C7: a 200 response exists only after a close with code 0 before the
\* timer fired, and its body is a value parsed from lines of stdout that
\* start at a line beginning with "{", passed through without an envelope.
C7_SuccessOnlyAfterCleanExit ==
    response.status = 200
        => /\ CleanExitFirst
           /\ response.fields = {}
           /\ \E i \in 1..Len(Lines) : \E j \in i..Len(Lines) :
                /\ startsWith(Lines[i])
                /\ parses(join(Lines, i, j))
                /\ response.json = JSONparse(join(Lines, i, j))

\* C7 witness: a 200 response, the timer having fired after it.
C7_Witness ==
    /\ response.status = 200
    /\ response.json = <<"{", "m", "}">>
    /\ timerFired

\* C8: a request whose audioData is missing or falsy is answered 400; no
\* process is spawned and no timer is started for it.
C8_FalsyAudioRejected ==
    (request.valid /\ request.audioData \in {Undefined, ""})
        => /\ spawnCalls = 0
           /\ proc = "none"
           /\ ~timerArmed
           /\ pc \in {"start", "returned"}
           /\ pc = "returned" => response.status = 400

\* C8 witness: the empty string has been refused.
C8_Witness ==
    /\ request.valid
    /\ request.audioData = ""
    /\ pc = "returned"
    /\ response.status = 400

\* C9: when starting the process raises an exception (spawn throws, or the
\* executable is not found) the response is the 500 with error and details.
C9_SpawnExceptionIsInternalError ==
    /\ pc = "rejected"
         => response.status = 500 /\ response.fields = {"error", "details"}
    /\ (proc = "failed" /\ response # NoResponse)
         => response.status = 500 /\ response.fields = {"error", "details"}

\* C10: each buffer is the concatenation of the chunks delivered on its own
\* stream, in arrival order.
C10_BuffersAreConcatenations ==
    /\ stdout = Concat(outChunks)
    /\ stderr = Concat(errChunks)

\* C10 witness: two different chunks have arrived on each stream.
C10_Witness ==
    /\ Len(outChunks) = 2
    /\ Len(errChunks) = 2
    /\ outChunks[1] # outChunks[2]
    /\ errChunks[1] # errChunks[2]
    /\ stdout # <<>>

\* all the bytes of the chunks, in order
RECURSIVE Flatten(_)
Flatten(chunks) ==
    IF chunks = <<>> THEN <<>> ELSE Head(chunks) \o Flatten(Tail(chunks))

\* The line begins with "{" as it stands.
BeginsWithBrace(line) == line # <<>> /\ line[1] = "{"

\* The lines i < j for which lines i..j, joined, parse.
ParsesFrom(i) ==
    {j \in (i + 1)..Len(Lines) : parses(join(Lines, i, j))}

\* The candidate lines with an accumulation that parses.
GoodCandidates ==
    {i \in 1..Len(Lines) : BeginsWithBrace(Lines[i]) /\ ParsesFrom(i) # {}}

Maximum(S) == CHOOSE x \in S : \A y \in S : y <= x
Minimum(S) == CHOOSE x \in S : \A y \in S : x <= y

\* C11: the outcome of a close is a function of the bytes written to stdout
\* and stderr and of the exit code, whatever the chunks they arrived in: it
\* is the outcome of the same bytes arriving as one chunk per stream.
C11_OutcomeIndependentOfChunking ==
    firstEvent = "close"
        => response = closeOutcome(closeCode, toString(Flatten(outChunks)),
                                   toString(Flatten(errChunks)))

\* C12 as stated: a line that begins with "{" once the line itself is
\* trimmed is a candidate, so when the lines from it to some later line
\* parse, extraction succeeds.
C12_TrimmedLineIsCandidate ==
    (CleanExitFirst /\ \E i \in 1..Len(Lines) :
                          BeginsWithBrace(trim(Lines[i])) /\ ParsesFrom(i) # {})
        => response.status = 200

\* C12 amended: a line is a candidate exactly when it begins with "{" as it
\* stands in the trimmed buffer: extraction succeeds if and only if the
\* lines from such a line to some later line parse.
C12_UntrimmedLineIsCandidate ==
    CleanExitFirst => (response.status = 200 <=> GoodCandidates # {})

\* C12 witness: an indented "{" in the middle of stdout, whose lines would
\* parse, has not been taken as a candidate.
C12_Witness ==
    /\ CleanExitFirst
    /\ response.status = 500
    /\ \E i \in 2..Len(Lines) :
         /\ ~BeginsWithBrace(Lines[i])
         /\ BeginsWithBrace(trim(Lines[i]))
         /\ ParsesFrom(i) # {}

\* C13: the result is the value of the latest line beginning with "{" for
\* which appending following lines, one at a time, reaches a text that
\* parses, taken at the first such text; later candidates that never parse
\* are passed over, and extraction fails only when no candidate is left.
C13_LatestCandidateWins ==
    CleanExitFirst =>
        IF GoodCandidates = {}
        THEN /\ response.status = 500
             /\ response.error = "Failed to parse classification results"
        ELSE LET i == Maximum(GoodCandidates)
                 j == Minimum(ParsesFrom(i))
             IN  /\ response.status = 200
                 /\ response.json = JSONparse(join(Lines, i, j))

\* C13 witness: the last candidate never parsed, an earlier one did, and
\* its accumulation stopped before the last line.
C13_Witness ==
    /\ CleanExitFirst
    /\ response.status = 200
    /\ \E l \in 1..Len(Lines) :
         /\ BeginsWithBrace(Lines[l])
         /\ l < Len(Lines)
         /\ l > Maximum(GoodCandidates)
    /\ Minimum(ParsesFrom(Maximum(GoodCandidates))) < Len(Lines)

\* C15: once the close event has produced the outcome the timer does
\* nothing more: no kill is issued after it.
C15_NoKillAfterClose ==
    firstEvent = "close" => killCalls = 0

\* C16: once the timer has fired or the process has closed, a chunk that
\* still arrives leaves both buffers as they were.
C16_BuffersFrozen ==
    [][(timerFired \/ closed) => (stdout' = stdout /\ stderr' = stderr)]_vars

\* C14: when the timer fires before the process has closed, python.kill()
\* is called, and it has been called when the 408 outcome is produced: no
\* 408 outcome exists without a kill issued before it.
C14_KillBeforeTimeout ==
    /\ (timerFired /\ firstEvent = "timer") => killCalls = 1
    /\ response.status = 408 => killsAtResolve = 1

\* C14 witness: the timer fired on a running process that had written
\* output and has not closed.
C14_Witness ==
    /\ firstEvent = "timer"
    /\ proc = "running"
    /\ ~closed
    /\ stdout # <<>>
    /\ response.status = 408
    /\ killCalls = 1

\* The response of an invocation that has these buffers is one it produces
\* from them alone.
FromOwnBuffers(resp, out, err) ==
    /\ "stdout" \in resp.fields => resp.stdout = out /\ resp.stderr = err
    /\ resp.status = 200
         => \E i \in 1..Len(split(trim(out))) :
              \E j \in i..Len(split(trim(out))) :
                resp.json = JSONparse(join(split(trim(out)), i, j))

\* C17: two invocations at the same time are independent: each spawns its
\* own process, a step of one leaves the buffers and the outcome of the
\* other as they were, each buffer holds the chunks of its own invocation
\* and stream only, and each outcome comes from its own buffers.
C17_InvocationsIndependent ==
    [][ /\ peer' # peer => own' = own
        /\ own' # own => peer' = peer
        /\ spawnCalls' <= 1 /\ peer'.spawnCalls <= 1
        /\ stdout' = Concat(outChunks') /\ stderr' = Concat(errChunks')
        /\ peer'.stdout = Concat(peer'.outChunks)
        /\ peer'.stderr = Concat(peer'.errChunks)
        /\ closed' => FromOwnBuffers(response', stdout', stderr')
        /\ peer'.closed
             => FromOwnBuffers(peer'.response, peer'.stdout, peer'.stderr)
      ]_vars

\* C17 witness: both invocations have run and closed, with different
\* output and different outcomes.
C17_Witness ==
    /\ closed /\ peer.closed
    /\ spawnCalls = 1 /\ peer.spawnCalls = 1
    /\ stdout # <<>> /\ peer.stdout # <<>> /\ stdout # peer.stdout
    /\ stderr = <<>> /\ peer.stderr = <<>>
    /\ response.status = 500 /\ peer.response.status = 408

\* C18: a request that passed validation and whose promise executor ran is
\* answered in the end, also when the process never writes and never
\* closes: it is answered at the latest when the timer fires.
C18_EventuallyAnswered ==
    /\ [](timerFired => response # NoResponse)
    /\ (pc = "spawned") ~> (response # NoResponse)

\* C18 witness: the process has neither written nor closed and the request
\* is answered.
C18_Witness ==
    /\ pc = "spawned"
    /\ proc = "running"
    /\ ~closed
    /\ stdout = <<>> /\ stderr = <<>>
    /\ timerFired
    /\ response # NoResponse

====
